---- MODULE Spec2Model ----
(***************************************************************************)
(* Model of src/extract_entities.py: the PAN scanner, the context window,  *)
(* the four relation patterns, the nearest-entity resolver and the         *)
(* per-identifier loop of process_entities.                                *)
(*                                                                         *)
(* Text is a TLA+ string.  Positions are Python's: 0-based, a slice        *)
(* [a, b) is half open.  The regular expressions of the source are kept as *)
(* syntax trees and run by a backtracking matcher with Python's priority   *)
(* order (leftmost start, alternatives left to right, greedy/lazy          *)
(* repetition).                                                            *)
(***************************************************************************)
EXTENDS Integers, Sequences, FiniteSets, TLC

(***************************************************************************)
(* Python values                                                           *)
(***************************************************************************)

\* Python's None, as returned for "no name" / "no type".
None == "<None>"

\* Truth value of a name in `if not entity_name` / `if entity_name`.
Truthy(x) == x # None /\ x # ""

Min(S) == CHOOSE x \in S : \A y \in S : x <= y

Max2(a, b) == IF a >= b THEN a ELSE b

Min2(a, b) == IF a <= b THEN a ELSE b

Abs(n) == IF n < 0 THEN -n ELSE n

(***************************************************************************)
(* Characters and strings                                                  *)
(***************************************************************************)

UpperChars == "ABCDEFGHIJKLMNOPQRSTUVWXYZ"

LowerChars == "abcdefghijklmnopqrstuvwxyz"

DigitChars == "0123456789"

CharSet(s) == {SubSeq(s, i, i) : i \in 1..Len(s)}

UpperSet == CharSet(UpperChars)

LowerSet == CharSet(LowerChars)

DigitSet == CharSet(DigitChars)

\* \s of the re module (ASCII part).
SpaceSet == {" ", "\t", "\n", "\r", "\f"}

\* \w of the re module (ASCII part).
WordSet == UpperSet \cup LowerSet \cup DigitSet \cup {"_"}

LowerMap == [c \in UpperSet |->
               LET i == CHOOSE j \in 1..Len(UpperChars) : SubSeq(UpperChars, j, j) = c
               IN  SubSeq(LowerChars, i, i)]

UpperMap == [c \in LowerSet |->
               LET i == CHOOSE j \in 1..Len(LowerChars) : SubSeq(LowerChars, j, j) = c
               IN  SubSeq(UpperChars, i, i)]

ToLower(c) == IF c \in UpperSet THEN LowerMap[c] ELSE c

ToUpper(c) == IF c \in LowerSet THEN UpperMap[c] ELSE c

\* s[i] of Python (0-based), i within range.
CharAt(s, i) == SubSeq(s, i + 1, i + 1)

RECURSIVE LowerRange(_, _, _)
LowerRange(s, lo, hi) ==
    IF lo > hi THEN ""
    ELSE IF lo = hi THEN ToLower(CharAt(s, lo))
    ELSE LET mid == (lo + hi) \div 2
         IN  LowerRange(s, lo, mid) \o LowerRange(s, mid + 1, hi)

\* str.lower()
Lower(s) == LowerRange(s, 0, Len(s) - 1)

RECURSIVE UpperRange(_, _, _)
UpperRange(s, lo, hi) ==
    IF lo > hi THEN ""
    ELSE IF lo = hi THEN ToUpper(CharAt(s, lo))
    ELSE LET mid == (lo + hi) \div 2
         IN  UpperRange(s, lo, mid) \o UpperRange(s, mid + 1, hi)

\* str.upper()
Upper(s) == UpperRange(s, 0, Len(s) - 1)

\* An index of a slice: negative counts from the end, then clamped.
SliceIndex(s, a) ==
    LET n == Len(s)
        b == IF a < 0 THEN a + n ELSE a
    IN  Max2(0, Min2(n, b))

\* s[a:b] of Python.
Slice(s, a, b) ==
    LET lo == SliceIndex(s, a)
        hi == SliceIndex(s, b)
    IN  IF lo >= hi THEN "" ELSE SubSeq(s, lo + 1, hi)

\* s[i:i+len(sub)] == sub
StartsAt(s, sub, i) ==
    /\ i >= 0
    /\ i + Len(sub) <= Len(s)
    /\ SubSeq(s, i + 1, i + Len(sub)) = sub

\* str.find(sub): the first index of sub in s, or -1.
Find(s, sub) ==
    LET hits == {i \in 0..(Len(s) - Len(sub)) : StartsAt(s, sub, i)}
    IN  IF hits = {} THEN -1 ELSE Min(hits)

\* str.isdigit() on ASCII text.
IsDigit(s) == Len(s) > 0 /\ \A i \in 0..(Len(s) - 1) : CharAt(s, i) \in DigitSet

\* str.strip(): leading and trailing white space removed.
Strip(s) ==
    LET keep == {i \in 0..(Len(s) - 1) : CharAt(s, i) \notin SpaceSet}
    IN  IF keep = {} THEN ""
        ELSE SubSeq(s, Min(keep) + 1, (CHOOSE x \in keep : \A y \in keep : y <= x) + 1)

(***************************************************************************)
(* Regular expressions (module re)                                         *)
(***************************************************************************)

\* Syntax tree nodes.  Every node has the same fields.
Node(t, s, set, kids, min) == [t |-> t, s |-> s, set |-> set, kids |-> kids, min |-> min]

\* A literal string (also what re.escape(pan) denotes).
Lit(s) == Node("lit", s, {}, <<>>, 0)

\* A character class [...].
Cls(S) == Node("cls", "", S, <<>>, 0)

\* Concatenation.
Cat(kids) == Node("cat", "", {}, kids, 0)

\* Alternation a|b|c, tried left to right.
Alt(kids) == Node("alt", "", {}, kids, 0)

\* Greedy repetition: x* is Greedy(x, 0), x+ is Greedy(x, 1).
Greedy(x, min) == Node("greedy", "", {}, <<x>>, min)

\* Lazy repetition: x+? is Lazy(x, 1).
Lazy(x, min) == Node("lazy", "", {}, <<x>>, min)

\* x? (greedy): x first, then nothing.
Opt(x) == Alt(<<x, Cat(<<>>)>>)

\* x{n}
RECURSIVE Times(_, _)
Times(x, n) == IF n = 0 THEN <<>> ELSE <<x>> \o Times(x, n - 1)

GroupOpen == Node("open", "", {}, <<>>, 0)

GroupClose == Node("close", "", {}, <<>>, 0)

\* The capturing group ( x ); every pattern of the source has at most one.
Group(x) == Cat(<<GroupOpen, x, GroupClose>>)

\* \b
WordB == Node("wordb", "", {}, <<>>, 0)

NoMatch == [ok |-> FALSE, start |-> -1, end |-> -1, gs |-> -1, ge |-> -1]

IsWordAt(text, i) == i >= 0 /\ i < Len(text) /\ CharAt(text, i) \in WordSet

\* One character against a class; ic is re.IGNORECASE.
ClsMatch(c, S, ic) == c \in S \/ (ic /\ (ToLower(c) \in S \/ ToUpper(c) \in S))

\* A literal at position i, character by character.
LitMatch(text, s, i, ic) ==
    /\ i + Len(s) <= Len(text)
    /\ \A j \in 0..(Len(s) - 1) :
          \/ CharAt(text, i + j) = CharAt(s, j)
          \/ ic /\ ToLower(CharAt(text, i + j)) = ToLower(CharAt(s, j))

\* The length of the run of characters of class S that starts at i.
RunLen(text, S, ic, i) ==
    LET stop(j) == j = Len(text) \/ ~ClsMatch(CharAt(text, j), S, ic)
    IN  (CHOOSE j \in i..Len(text) : stop(j) /\ \A k \in i..(j - 1) : ~stop(k)) - i

\* Of the attempts <<count, result>> of a repetition, the successful one
\* with the smallest count (lazy) or the largest (greedy).
PickCount(attempts, lazy) ==
    LET good == {p \in attempts : p[2].ok}
    IN  IF good = {} THEN NoMatch
        ELSE IF lazy THEN (CHOOSE p \in good : \A q \in good : p[1] <= q[1])[2]
        ELSE (CHOOSE p \in good : \A q \in good : q[1] <= p[1])[2]

RECURSIVE MatchHere(_, _, _, _, _, _)
RECURSIVE AltFrom(_, _, _, _, _, _, _, _)

\* The backtracking matcher: k is the list of nodes still to match from
\* position i; gs, ge are the bounds of group 1 so far.  The result is the
\* first success in priority order.  A repetition of a character class can
\* take any count from its minimum to the length of the run at i; greedy
\* takes the largest count the rest of the pattern accepts, lazy the
\* smallest.
MatchHere(text, ic, k, i, gs, ge) ==
    IF k = <<>> THEN [ok |-> TRUE, start |-> -1, end |-> i, gs |-> gs, ge |-> ge]
    ELSE
    LET n == Head(k)
        r == Tail(k)
    IN  CASE n.t = "lit" ->
               IF LitMatch(text, n.s, i, ic)
               THEN MatchHere(text, ic, r, i + Len(n.s), gs, ge)
               ELSE NoMatch
          [] n.t = "cls" ->
               IF i < Len(text) /\ ClsMatch(CharAt(text, i), n.set, ic)
               THEN MatchHere(text, ic, r, i + 1, gs, ge)
               ELSE NoMatch
          [] n.t = "cat" -> MatchHere(text, ic, n.kids \o r, i, gs, ge)
          [] n.t = "alt" -> AltFrom(text, ic, n.kids, 1, r, i, gs, ge)
          [] n.t \in {"greedy", "lazy"} /\ n.kids[1].t = "cls" ->
               PickCount({<<c, MatchHere(text, ic, r, i + c, gs, ge)>> :
                             c \in n.min..RunLen(text, n.kids[1].set, ic, i)},
                         n.t = "lazy")
          [] n.t = "greedy" /\ n.kids[1].t # "cls" ->
               IF n.min > 0
               THEN MatchHere(text, ic, <<n.kids[1], Greedy(n.kids[1], n.min - 1)>> \o r,
                              i, gs, ge)
               ELSE LET more == MatchHere(text, ic, <<n.kids[1], n>> \o r, i, gs, ge)
                    IN  IF more.ok THEN more ELSE MatchHere(text, ic, r, i, gs, ge)
          [] n.t = "lazy" /\ n.kids[1].t # "cls" ->
               IF n.min > 0
               THEN MatchHere(text, ic, <<n.kids[1], Lazy(n.kids[1], n.min - 1)>> \o r,
                              i, gs, ge)
               ELSE LET stop == MatchHere(text, ic, r, i, gs, ge)
                    IN  IF stop.ok THEN stop
                        ELSE MatchHere(text, ic, <<n.kids[1], n>> \o r, i, gs, ge)
          [] n.t = "open" -> MatchHere(text, ic, r, i, i, ge)
          [] n.t = "close" -> MatchHere(text, ic, r, i, gs, i)
          [] n.t = "wordb" ->
               IF IsWordAt(text, i - 1) # IsWordAt(text, i)
               THEN MatchHere(text, ic, r, i, gs, ge)
               ELSE NoMatch

AltFrom(text, ic, kids, j, r, i, gs, ge) ==
    IF j > Len(kids) THEN NoMatch
    ELSE LET m == MatchHere(text, ic, <<kids[j]>> \o r, i, gs, ge)
         IN  IF m.ok THEN m ELSE AltFrom(text, ic, kids, j + 1, r, i, gs, ge)

\* pattern.search(text) from position `from`: the match at the leftmost
\* position that has one.
Leftmost(attempts) ==
    LET hits == {p \in attempts : p[2].ok}
    IN  IF hits = {} THEN NoMatch
        ELSE LET first == CHOOSE p \in hits : \A q \in hits : p[1] <= q[1]
             IN  [first[2] EXCEPT !.start = first[1]]

Search(re, text, ic, from) ==
    Leftmost({<<i, MatchHere(text, ic, <<re>>, i, -1, -1)>> : i \in from..Len(text)})

\* re.findall for a pattern without groups: the non-overlapping matches,
\* left to right.  (No pattern of the source matches the empty string.)
RECURSIVE FindAllFrom(_, _, _, _)
RECURSIVE FindAllAfter(_, _, _, _)
FindAllFrom(re, text, ic, from) == FindAllAfter(re, text, ic, Search(re, text, ic, from))

\* The match m and the matches after it.
FindAllAfter(re, text, ic, m) ==
    IF ~m.ok THEN <<>>
    ELSE <<Slice(text, m.start, m.end)>> \o FindAllFrom(re, text, ic, m.end)

FindAll(re, text, ic) == FindAllFrom(re, text, ic, 0)

\* match.group(1)
Group1(text, m) == Slice(text, m.gs, m.ge)

(***************************************************************************)
(* extract_pan_numbers                                                     *)
(***************************************************************************)

\* pan_pattern = r'\b[A-Z]{5}[0-9]{4}[A-Z]\b'
pan_pattern ==
    Cat(<<WordB>> \o Times(Cls(UpperSet), 5) \o Times(Cls(DigitSet), 4)
        \o <<Cls(UpperSet), WordB>>)

\* pans = re.findall(pan_pattern, text.upper())
PanMatches(text) == FindAll(pan_pattern, Upper(text), FALSE)

SeqToSet(q) == {q[i] : i \in 1..Len(q)}

\* list(S) for a set S of strings: the elements once each, in the order of
\* the set's hash table.  str hashes are salted per interpreter process, so
\* every order can come out.
ListOfSet(S) ==
    {f \in [1..Cardinality(S) -> S] : \A i, j \in 1..Cardinality(S) : f[i] = f[j] => i = j}

\* The mutant: the matches returned as found, duplicates kept.
extract_pan_numbers_keep_duplicates(text) == {PanMatches(text)}

\* The possible return values of extract_pan_numbers(text).
extract_pan_numbers(text) == ListOfSet(SeqToSet(PanMatches(text)))

(***************************************************************************)
(* find_context_around_pan                                                 *)
(***************************************************************************)

\* The mutant: the left edge not clamped at 0 (a negative slice index counts
\* from the end of the text).
\* if match: start = max(0, ...); end = min(len(text), ...); return text[start:end]
\* return ""
ContextOfMatch(text, match, window) ==
    IF match.ok
    THEN LET start == Max2(0, match.start - window)
             end   == Min2(Len(text), match.end + window)
         IN  Slice(text, start, end)
    ELSE ""

\* The mutant: the left edge not clamped at 0 (a negative slice index counts
\* from the end of the text).
ContextOfMatchUnclamped(text, match, window) ==
    IF match.ok
    THEN Slice(text, match.start - window, Min2(Len(text), match.end + window))
    ELSE ""

find_context_around_pan_unclamped(text, pan, window) ==
    ContextOfMatchUnclamped(text, Search(Lit(pan), text, TRUE, 0), window)

find_context_around_pan(text, pan, window) ==
    ContextOfMatch(text, Search(Lit(pan), text, TRUE, 0), window)

(***************************************************************************)
(* The recognizer (spaCy) and the two mention extractors                   *)
(***************************************************************************)

\* doc = nlp(text); doc.ents.  The recognizer is external: it is modelled
\* by the set of mentions it knows, and finds those that occur in the text
\* it is given, in the order of their position (as doc.ents is).
Recognize(nlp, text) ==
    LET found == {e \in nlp : Find(text, e.text) # -1}
        before(e) == {d \in found : Find(text, d.text) < Find(text, e.text)
                                     \/ (Find(text, d.text) = Find(text, e.text)
                                         /\ Len(d.text) < Len(e.text))}
    IN  [i \in 1..Cardinality(found) |->
            CHOOSE e \in found : Cardinality(before(e)) = i - 1]

\* The filter of both extractors: len(name) > 2 and not name.isdigit()
KeepMention(name) == Len(name) > 2 /\ ~IsDigit(name)

RECURSIVE MentionsOf(_, _)
MentionsOf(ents, label) ==
    IF ents = <<>> THEN <<>>
    ELSE LET name == Strip(Head(ents).text)
         IN  (IF Head(ents).label = label /\ KeepMention(name) THEN <<name>> ELSE <<>>)
             \o MentionsOf(Tail(ents), label)

extract_person_names(text, nlp) == MentionsOf(Recognize(nlp, text), "PERSON")

extract_organizations(text, nlp) == MentionsOf(Recognize(nlp, text), "ORG")

(***************************************************************************)
(* find_nearest_entity                                                     *)
(***************************************************************************)

\* closest_distance = float('inf')
Inf == -1

CloserThan(distance, closest_distance) ==
    closest_distance = Inf \/ distance < closest_distance

\* One of the two loops: best is <<closest_entity, closest_distance, entity_type>>.
RECURSIVE CheckCandidates(_, _, _, _, _)
CheckCandidates(cands, type, context_lower, pan_pos, best) ==
    IF cands = <<>> THEN best
    ELSE LET pos == Find(context_lower, Lower(Head(cands)))
             distance == Abs(pos - pan_pos)
             next == IF pos # -1 /\ CloserThan(distance, best[2])
                     THEN <<Head(cands), distance, type>>
                     ELSE best
         IN  CheckCandidates(Tail(cands), type, context_lower, pan_pos, next)

\* The mutant: `<=` for `<`, so the last of several nearest candidates wins.
RECURSIVE CheckCandidatesLastWins(_, _, _, _, _)
CheckCandidatesLastWins(cands, type, context_lower, pan_pos, best) ==
    IF cands = <<>> THEN best
    ELSE LET pos == Find(context_lower, Lower(Head(cands)))
             distance == Abs(pos - pan_pos)
             next == IF pos # -1 /\ (best[2] = Inf \/ distance <= best[2])
                     THEN <<Head(cands), distance, type>>
                     ELSE best
         IN  CheckCandidatesLastWins(Tail(cands), type, context_lower, pan_pos, next)

\* return closest_entity, entity_type
NameAndType(best) == <<best[1], best[3]>>

NearestLastWins(context_lower, pan_pos, persons, orgs) ==
    IF pan_pos = -1 THEN <<None, None>>
    ELSE NameAndType(
             CheckCandidatesLastWins(orgs, "Organisation", context_lower, pan_pos,
                 CheckCandidatesLastWins(persons, "Person", context_lower, pan_pos,
                                         <<None, Inf, None>>)))

NearestAt(context_lower, pan_pos, persons, orgs) ==
    IF pan_pos = -1 THEN <<None, None>>
    ELSE NameAndType(
             CheckCandidates(orgs, "Organisation", context_lower, pan_pos,
                 CheckCandidates(persons, "Person", context_lower, pan_pos,
                                 <<None, Inf, None>>)))

NearestIn(context_lower, pan, persons, orgs) ==
    NearestAt(context_lower, Find(context_lower, Lower(pan)), persons, orgs)

find_nearest_entity_last_wins(pan, context, persons, orgs) ==
    NearestLastWins(Lower(context), Find(Lower(context), Lower(pan)), persons, orgs)

\* Returns <<closest_entity, entity_type>>.
find_nearest_entity(pan, context, persons, orgs) ==
    NearestIn(Lower(context), pan, persons, orgs)

(***************************************************************************)
(* extract_with_patterns                                                   *)
(***************************************************************************)

\* \s
Ws == Cls(SpaceSet)

\* (?:PAN|Pan|pan)
PanWord == Alt(<<Lit("PAN"), Lit("Pan"), Lit("pan")>>)

\* (?:Mr\.|Ms\.|Mrs\.|Dr\.|Shri|Smt\.)
Honorific == Alt(<<Lit("Mr."), Lit("Ms."), Lit("Mrs."), Lit("Dr."), Lit("Shri"), Lit("Smt.")>>)

\* ([A-Z][a-z]+(?:\s+[A-Z][a-z]+)*)
PersonName ==
    Group(Cat(<<Cls(UpperSet), Greedy(Cls(LowerSet), 1),
                Greedy(Cat(<<Greedy(Ws, 1), Cls(UpperSet), Greedy(Cls(LowerSet), 1)>>), 0)>>))

\* (?:Ltd|Limited|Pvt|Private|Corporation|Corp|Inc|Company|Enterprises|Industries)
CorporateSuffix ==
    Alt(<<Lit("Ltd"), Lit("Limited"), Lit("Pvt"), Lit("Private"), Lit("Corporation"),
          Lit("Corp"), Lit("Inc"), Lit("Company"), Lit("Enterprises"), Lit("Industries")>>)

\* ([A-Z][A-Za-z\s&,\.]+?(?:Ltd|...|Industries))
OrgName ==
    Group(Cat(<<Cls(UpperSet),
                Lazy(Cls(UpperSet \cup LowerSet \cup SpaceSet \cup {"&", ",", "."}), 1),
                CorporateSuffix>>))

\* "PAN: XXXXX of Mr./Ms./Mrs. Name"
Pattern1(pan) ==
    Cat(<<PanWord, Greedy(Cls(SpaceSet \cup {":"}), 1), Lit(pan), Greedy(Ws, 1),
          Alt(<<Lit("of"), Lit("for"), Lit("belonging to"), Lit("issued to")>>),
          Greedy(Ws, 1), Honorific, Greedy(Ws, 0), PersonName>>)

\* "Mr./Ms. Name (PAN: XXXXX)"
Pattern2(pan) ==
    Cat(<<Honorific, Greedy(Ws, 0), PersonName, Greedy(Ws, 0),
          Alt(<<Lit("("), Lit(","), Ws>>),
          PanWord, Greedy(Cls(SpaceSet \cup {":"}), 0), Lit(pan)>>)

\* "Company Name - PAN: XXXXX".  The separator is (?:-|en dash|:|,)?; the en
\* dash is outside the ASCII alphabet of the texts and is left out.
Pattern3(pan) ==
    Cat(<<OrgName, Greedy(Ws, 0), Opt(Alt(<<Lit("-"), Lit(":"), Lit(",")>>)), Greedy(Ws, 0),
          PanWord, Greedy(Cls(SpaceSet \cup {":"}), 0), Lit(pan)>>)

\* "PAN XXXXX in the name of Company"
Pattern4(pan) ==
    Cat(<<PanWord, Greedy(Cls(SpaceSet \cup {":"}), 0), Lit(pan), Greedy(Ws, 1),
          Alt(<<Lit("in the name of"), Lit("belongs to"), Lit("for")>>),
          Greedy(Ws, 1), OrgName>>)

\* patterns = [(pattern, entity_type), ...]
patterns(pan) ==
    << <<Pattern1(pan), "Person">>, <<Pattern2(pan), "Person">>,
       <<Pattern3(pan), "Organisation">>, <<Pattern4(pan), "Organisation">> >>

\* for pattern, entity_type in patterns: match = re.search(pattern, text, re.IGNORECASE)
RECURSIVE FirstPattern(_, _)
RECURSIVE PatternOutcome(_, _, _)
FirstPattern(ps, text) ==
    IF ps = <<>> THEN <<None, None>>
    ELSE PatternOutcome(ps, text, Search(Head(ps)[1], text, TRUE, 0))

\* if match: return match.group(1).strip(), entity_type; else the next pattern
PatternOutcome(ps, text, match) ==
    IF match.ok THEN <<Strip(Group1(text, match)), Head(ps)[2]>>
    ELSE FirstPattern(Tail(ps), text)

\* Returns <<name, entity_type>>.
extract_with_patterns(text, pan) == FirstPattern(patterns(pan), text)

(***************************************************************************)
(* Bounds and inputs                                                       *)
(***************************************************************************)

\* How many times the program is run on the same text.
MaxRuns == 2

\* How many mentions a recognizer of the model knows.
MaxKnown == 2

\* The length of the filler between a name and an identifier that are more
\* than the narrow radius and less than the wide radius apart.
FarGap == 250

\* window=200 of the first recognizer attempt.
NarrowWindow == 200

\* window=400 of the second recognizer attempt.
WideWindow == 400

\* n copies of s.
RECURSIVE Rep(_, _)
Rep(s, n) ==
    IF n <= 0 THEN ""
    ELSE IF n = 1 THEN s
    ELSE Rep(s, n \div 2) \o Rep(s, n - (n \div 2))

TextExample == "Mr. A Kumar (PAN: ABCDE1234F) is a director of XYZ Pvt Ltd - PAN: WXYZA5678B"

SmithPhrase == "PAN: ABCDE1234F of Mr. John Smith"

TextSmith == SmithPhrase

TextSmithMore == "Ref. " \o SmithPhrase \o " is a director of the firm"

TextFar == "Ravi Rao" \o Rep("#", FarGap) \o " ABCDE1234F"

TextTie == "Ravi Rao : ABCDE1234F Zed Corp"

TextDup == "abcde1234f, XABCDE1234F, ABCDE1234F; QWERT9876Y seen by Zed Corp"

TextOrg == "PAN QWERT9876Y belongs to Acme Industries Limited; Dr. Ravi Rao, PAN ABCDE1234F"

TextNone == "no identifier here, PAN 12345"

Texts == {TextExample, TextSmith, TextSmithMore, TextFar, TextTie, TextDup, TextOrg, TextNone}

Mention(text, label) == [text |-> text, label |-> label]

\* The mentions a recognizer of the model can know.
Vocabulary ==
    {Mention("Ravi Rao", "PERSON"), Mention("A Kumar", "PERSON"), Mention("Dr", "PERSON"),
     Mention("Zed Corp", "ORG"), Mention("XYZ Pvt Ltd", "ORG"), Mention("9876", "ORG")}

\* The recognizers tried on a text: Recognize returns only mentions that
\* occur in the text it is given, so only those matter.
Recognizers(t) ==
    {S \in SUBSET {e \in Vocabulary : Find(t, e.text) # -1} : Cardinality(S) <= MaxKnown}

(***************************************************************************)
(* process_entities, run by main                                           *)
(***************************************************************************)

VARIABLES
    text,         \* the text given to process_entities
    nlp,          \* the recognizer: the mentions it knows
    model_found,  \* whether spacy.load("en_core_web_sm") succeeds
    pc,           \* where process_entities is
    pan_numbers,  \* the identifiers, as a list
    idx,          \* the loop index (1-based, as enumerate(pan_numbers, 1))
    context,      \* the narrow context of the current identifier
    entity_name,
    entity_type,
    entities,     \* the records so far
    calls,        \* the windows the recognizer was run on for the current identifier
    outputs,      \* what the earlier runs returned
    fn            \* the call of a single function under check (unused here)

vars == <<text, nlp, model_found, pc, pan_numbers, idx, context, entity_name, entity_type,
          entities, calls, outputs, fn>>

NoCall == [name |-> "none"]

Init ==
    /\ text \in Texts
    /\ nlp \in Recognizers(text)
    /\ model_found \in BOOLEAN
    /\ pc = "load"
    /\ pan_numbers = <<>>
    /\ idx = 0
    /\ context = ""
    /\ entity_name = None
    /\ entity_type = None
    /\ entities = <<>>
    /\ calls = <<>>
    /\ outputs = <<>>
    /\ fn = NoCall

\* nlp = spacy.load(...): when the model is missing the download is tried
\* and the second load raises.
LoadModel ==
    /\ pc = "load"
    /\ pc' = IF model_found THEN "scan" ELSE "raised"
    /\ UNCHANGED <<text, nlp, model_found, pan_numbers, idx, context, entity_name,
                   entity_type, entities, calls, outputs, fn>>

\* pan_numbers = extract_pan_numbers(text); if not pan_numbers: return []
ScanPans ==
    /\ pc = "scan"
    /\ \E pans \in extract_pan_numbers(text) :
          /\ pan_numbers' = pans
          /\ idx' = IF pans = <<>> THEN 0 ELSE 1
          /\ pc' = IF pans = <<>> THEN "return" ELSE "pattern"
    /\ entities' = <<>>
    /\ UNCHANGED <<text, nlp, model_found, context, entity_name, entity_type, calls,
                   outputs, fn>>

pan == pan_numbers[idx]

\* entity_name, entity_type = found
SetEntity(found) ==
    /\ entity_name' = found[1]
    /\ entity_type' = found[2]

\* persons = extract_person_names(ctx, nlp); orgs = extract_organizations(ctx, nlp)
\* entity_name, entity_type = find_nearest_entity(pan, ctx, persons, orgs)
NerOver(ctx, p) ==
    find_nearest_entity(p, ctx, extract_person_names(ctx, nlp), extract_organizations(ctx, nlp))

\* context = find_context_around_pan(text, pan, window=200)
\* entity_name, entity_type = extract_with_patterns(text, pan)
TryPatterns ==
    /\ pc = "pattern"
    /\ context' = find_context_around_pan(text, pan, NarrowWindow)
    /\ SetEntity(extract_with_patterns(text, pan))
    /\ calls' = <<>>
    /\ pc' = "narrow"
    /\ UNCHANGED <<text, nlp, model_found, pan_numbers, idx, entities, outputs, fn>>

\* The mutant: the recognizer is run on the narrow context even when a
\* pattern gave a name.
NarrowNerUnguarded ==
    /\ pc = "narrow"
    /\ SetEntity(NerOver(context, pan))
    /\ calls' = calls \o <<NarrowWindow, NarrowWindow>>
    /\ pc' = "wide"
    /\ UNCHANGED <<text, nlp, model_found, pan_numbers, idx, context, entities, outputs, fn>>

\* if not entity_name: persons, orgs from the narrow context; nearest entity.
\* Each extractor runs the recognizer once.
NarrowNer ==
    /\ pc = "narrow"
    /\ IF ~Truthy(entity_name)
       THEN /\ SetEntity(NerOver(context, pan))
            /\ calls' = calls \o <<NarrowWindow, NarrowWindow>>
       ELSE UNCHANGED <<entity_name, entity_type, calls>>
    /\ pc' = "wide"
    /\ UNCHANGED <<text, nlp, model_found, pan_numbers, idx, context, entities, outputs, fn>>

\* if not entity_name: the same over find_context_around_pan(text, pan, window=400)
WideNer ==
    /\ pc = "wide"
    /\ IF ~Truthy(entity_name)
       THEN /\ SetEntity(NerOver(find_context_around_pan(text, pan, WideWindow), pan))
            /\ calls' = calls \o <<WideWindow, WideWindow>>
       ELSE UNCHANGED <<entity_name, entity_type, calls>>
    /\ pc' = "store"
    /\ UNCHANGED <<text, nlp, model_found, pan_numbers, idx, context, entities, outputs, fn>>

Record(value, type, name) ==
    [entity_type |-> "PAN", value |-> value, relation |-> "PAN_Of",
     related_entity_type |-> type, related_entity |-> name]

\* The mutant: an identifier without a name is not recorded.
NewRecordsDropUnresolved(p, name, type) ==
    IF Truthy(name) THEN <<Record(p, type, name)>> ELSE <<>>

\* The mutant: the type of the resolution is stored whether or not there
\* is a name.
NewRecordsRawType(p, name, type) ==
    IF Truthy(name) THEN <<Record(p, type, name)>> ELSE <<Record(p, type, "Not Found")>>

\* if entity_name: entities.append({...}) else: entities.append({... 'Unknown', 'Not Found'})
NewRecords(p, name, type) ==
    IF Truthy(name) THEN <<Record(p, type, name)>>
    ELSE <<Record(p, "Unknown", "Not Found")>>

StoreResult ==
    /\ pc = "store"
    /\ entities' = entities \o NewRecords(pan, entity_name, entity_type)
    /\ idx' = idx + 1
    /\ pc' = IF idx = Len(pan_numbers) THEN "return" ELSE "pattern"
    /\ UNCHANGED <<text, nlp, model_found, pan_numbers, context, entity_name, entity_type,
                   calls, outputs, fn>>

\* return entities
Return ==
    /\ pc = "return"
    /\ outputs' = Append(outputs, entities)
    /\ pc' = "done"
    /\ UNCHANGED <<text, nlp, model_found, pan_numbers, idx, context, entity_name,
                   entity_type, entities, calls, fn>>

\* The program is started again on the same document, with the same
\* recognizer: a new interpreter process, a new process_entities call.
RunAgain ==
    /\ pc = "done"
    /\ Len(outputs) < MaxRuns
    /\ pc' = "load"
    /\ pan_numbers' = <<>>
    /\ idx' = 0
    /\ context' = ""
    /\ entity_name' = None
    /\ entity_type' = None
    /\ entities' = <<>>
    /\ calls' = <<>>
    /\ UNCHANGED <<text, nlp, model_found, outputs, fn>>

Next ==
    \/ LoadModel
    \/ ScanPans
    \/ TryPatterns
    \/ NarrowNer
    \/ WideNer
    \/ StoreResult
    \/ Return
    \/ RunAgain

Spec == Init /\ [][Next]_vars

(***************************************************************************)
(* Single calls of find_nearest_entity and find_context_around_pan         *)
(***************************************************************************)

\* The longest context given to find_nearest_entity.
MaxContextLen == 4

\* The longest list of persons, and of organisations.
MaxCands == 2

\* The longest text given to find_context_around_pan.
MaxTextLen == 5

\* The largest window given to find_context_around_pan.
MaxWindow == 3

\* The strings of at most n characters of A.
RECURSIVE Strings(_, _)
Strings(A, n) ==
    IF n = 0 THEN {""}
    ELSE LET S == Strings(A, n - 1) IN S \cup {s \o c : s \in S, c \in A}

\* The lists of at most n elements of A.
RECURSIVE Lists(_, _)
Lists(A, n) ==
    IF n = 0 THEN {<<>>}
    ELSE LET S == Lists(A, n - 1) IN S \cup {Append(q, a) : q \in S, a \in A}

\* process_entities is not running.
Idle ==
    /\ text = ""
    /\ nlp = {}
    /\ model_found = TRUE
    /\ pc = "idle"
    /\ pan_numbers = <<>>
    /\ idx = 0
    /\ context = ""
    /\ entity_name = None
    /\ entity_type = None
    /\ entities = <<>>
    /\ calls = <<>>
    /\ outputs = <<>>

process_vars == <<text, nlp, model_found, pc, pan_numbers, idx, context, entity_name,
                  entity_type, entities, calls, outputs>>

InitNearest ==
    /\ Idle
    /\ \E c \in Strings({"a", "b", "P"}, MaxContextLen), p \in {"p", "pa"},
          ps \in Lists({"A", "b"}, MaxCands), os \in Lists({"a", "B", "ab"}, MaxCands) :
          fn = [name |-> "find_nearest_entity", pan |-> p, context |-> c, persons |-> ps,
                orgs |-> os, returned |-> FALSE, result |-> <<None, None>>]

CallNearest ==
    /\ fn.name = "find_nearest_entity"
    /\ ~fn.returned
    /\ fn' = [fn EXCEPT !.returned = TRUE,
                        !.result = find_nearest_entity(fn.pan, fn.context, fn.persons, fn.orgs)]
    /\ UNCHANGED process_vars

SpecNearest == InitNearest /\ [][CallNearest]_vars

InitContext ==
    /\ Idle
    /\ \E t \in Strings({"a", "P", "p", "1"}, MaxTextLen), p \in {"p", "P1", "pa"},
          w \in 0..MaxWindow :
          fn = [name |-> "find_context_around_pan", text |-> t, pan |-> p, window |-> w,
                returned |-> FALSE, result |-> ""]

CallContext ==
    /\ fn.name = "find_context_around_pan"
    /\ ~fn.returned
    /\ fn' = [fn EXCEPT !.returned = TRUE,
                        !.result = find_context_around_pan(fn.text, fn.pan, fn.window)]
    /\ UNCHANGED process_vars

SpecContext == InitContext /\ [][CallContext]_vars

(***************************************************************************)
(* What the claims are stated with                                         *)
(***************************************************************************)

\* sub occurs in s at position i, letter case ignored.
OccursAt(s, sub, i) ==
    /\ i >= 0
    /\ i + Len(sub) <= Len(s)
    /\ \A j \in 0..(Len(sub) - 1) : ToLower(CharAt(s, i + j)) = ToLower(CharAt(sub, j))

\* The first position where sub occurs in s, letter case ignored; -1 if none.
FirstOccurrence(s, sub) ==
    LET occ == {i \in 0..(Len(s) - Len(sub)) : OccursAt(s, sub, i)}
    IN  IF occ = {} THEN -1 ELSE Min(occ)

\* Five letters A-Z, four digits, one letter A-Z.
WellFormed(v) ==
    /\ Len(v) = 10
    /\ \A j \in {0, 1, 2, 3, 4, 9} : CharAt(v, j) \in UpperSet
    /\ \A j \in {5, 6, 7, 8} : CharAt(v, j) \in DigitSet

\* The unique identifiers of a text: the upper-cased words of the text that
\* are well formed.
Identifiers(t) ==
    {Upper(SubSeq(t, i + 1, i + 10)) :
        i \in {k \in 0..(Len(t) - 10) : /\ WellFormed(Upper(SubSeq(t, k + 1, k + 10)))
                                        /\ ~IsWordAt(t, k - 1)
                                        /\ ~IsWordAt(t, k + 10)}}

Values(out) == {out[i].value : i \in 1..Len(out)}

\* What the last finished run returned.
LastOutput == outputs[Len(outputs)]

\* What the recognizer stage gives for identifier p over the window of a radius.
NerResult(p, radius) == NerOver(find_context_around_pan(text, p, radius), p)

\* The recognizer has no usable mention in the window of a radius around p.
NoMentions(p, radius) ==
    LET ctx == find_context_around_pan(text, p, radius)
    IN  extract_person_names(ctx, nlp) = <<>> /\ extract_organizations(ctx, nlp) = <<>>

(***************************************************************************)
(* C1: process_entities returns exactly one record per unique identifier   *)
(* of the text: as many records as unique identifiers, none dropped, none  *)
(* twice, and every value is a well-formed identifier.                     *)
(***************************************************************************)
C1_OneRecordPerIdentifier ==
    pc = "done" =>
        /\ Len(LastOutput) = Cardinality(Identifiers(text))
        /\ Values(LastOutput) = Identifiers(text)
        /\ \A i, j \in 1..Len(LastOutput) :
              LastOutput[i].value = LastOutput[j].value => i = j
        /\ \A i \in 1..Len(LastOutput) : WellFormed(LastOutput[i].value)

\* A run on a text where one identifier occurs twice (in two letter cases)
\* next to another one has returned two records.
C1_Witness ==
    /\ pc = "done"
    /\ text = TextDup
    /\ Len(PanMatches(text)) = 3
    /\ Len(LastOutput) = 2

(***************************************************************************)
(* C2: per identifier the stages run in the order pattern, recognizer over *)
(* the radius-200 window, recognizer over the radius-400 window; a later   *)
(* stage runs only if every earlier one gave no name; the windows never    *)
(* get narrower; the result is that of the first stage that gave a name,   *)
(* so a name found only in the radius-400 window is the one recorded.      *)
(***************************************************************************)
C2_StagesInOrder ==
    /\ \A i \in 1..(Len(calls) - 1) : calls[i] <= calls[i + 1]
    /\ pc = "store" =>
          LET byPattern == extract_with_patterns(text, pan)
              byNarrow == NerResult(pan, NarrowWindow)
              byWide == NerResult(pan, WideWindow)
          IN  IF Truthy(byPattern[1])
              THEN calls = <<>> /\ <<entity_name, entity_type>> = byPattern
              ELSE IF Truthy(byNarrow[1])
              THEN /\ calls = <<NarrowWindow, NarrowWindow>>
                   /\ <<entity_name, entity_type>> = byNarrow
              ELSE /\ calls = <<NarrowWindow, NarrowWindow, WideWindow, WideWindow>>
                   /\ <<entity_name, entity_type>> = byWide

\* No pattern, nothing usable within radius 200, a mention within radius
\* 400: all three stages ran and the radius-400 match is about to be stored.
C2_Witness ==
    /\ pc = "store"
    /\ ~Truthy(extract_with_patterns(text, pan)[1])
    /\ NoMentions(pan, NarrowWindow)
    /\ calls = <<NarrowWindow, NarrowWindow, WideWindow, WideWindow>>
    /\ entity_name = "Ravi Rao"
    /\ entity_type = "Person"

(***************************************************************************)
(* C3 (as claimed): if the text contains "PAN: ABCDE1234F of Mr. John      *)
(* Smith", the record of ABCDE1234F names "John Smith", a Person.          *)
(***************************************************************************)
C3_SmithResolved ==
    (pc = "done" /\ Find(text, SmithPhrase) # -1) =>
        \E i \in 1..Len(LastOutput) :
            LastOutput[i] = Record("ABCDE1234F", "Person", "John Smith")

(***************************************************************************)
(* C4 (as claimed): for the example text process_entities returns two      *)
(* records, ABCDE1234F of the Person "A Kumar" and WXYZA5678B of the       *)
(* Organization "XYZ Pvt Ltd".                                             *)
(***************************************************************************)
C4_ExampleRecords ==
    (pc = "done" /\ text = TextExample) =>
        /\ Len(LastOutput) = 2
        /\ {LastOutput[i] : i \in 1..Len(LastOutput)} =
              {Record("ABCDE1234F", "Person", "A Kumar"),
               Record("WXYZA5678B", "Organization", "XYZ Pvt Ltd")}

(***************************************************************************)
(* C6: an identifier with no pattern match and no recognizer mention in    *)
(* the radius-200 and the radius-400 window gets a normal record with type *)
(* "Unknown" and entity "Not Found"; the record is not left out.           *)
(***************************************************************************)
Unresolvable(p) ==
    /\ ~Truthy(extract_with_patterns(text, p)[1])
    /\ NoMentions(p, NarrowWindow)
    /\ NoMentions(p, WideWindow)

C6_UnresolvedRecorded ==
    pc = "done" =>
        \A p \in Identifiers(text) :
            Unresolvable(p) =>
                /\ \E i \in 1..Len(LastOutput) : LastOutput[i].value = p
                /\ \A i \in 1..Len(LastOutput) :
                      LastOutput[i].value = p =>
                          LastOutput[i] = Record(p, "Unknown", "Not Found")

\* A run has returned the record of an identifier nothing resolves.
C6_Witness ==
    /\ pc = "done"
    /\ \E i \in 1..Len(LastOutput) :
          /\ Unresolvable(LastOutput[i].value)
          /\ LastOutput[i].related_entity_type = "Unknown"
          /\ LastOutput[i].related_entity = "Not Found"

(***************************************************************************)
(* C7 (as claimed): two runs on the same text with the same recognizer     *)
(* return the same records in the same order.                              *)
(***************************************************************************)
C7_SameOutputTwice ==
    Len(outputs) >= 2 => outputs[1] = outputs[2]

(***************************************************************************)
(* C8 (as claimed): the records are in the order in which the identifiers  *)
(* first occur in the text.                                                *)
(***************************************************************************)
C8_DiscoveryOrder ==
    pc = "done" =>
        \A i, j \in 1..Len(LastOutput) :
            i < j => FirstOccurrence(text, LastOutput[i].value)
                        < FirstOccurrence(text, LastOutput[j].value)

C5_NearestFirstWins ==
    (fn.name = "find_nearest_entity" /\ fn.returned) =>
        LET cands == fn.persons \o fn.orgs
            panPos == FirstOccurrence(fn.context, fn.pan)
            occ(k) == FirstOccurrence(fn.context, cands[k])
            dist(k) == Abs(occ(k) - panPos)
            present == {k \in 1..Len(cands) : occ(k) # -1}
            best == CHOOSE k \in present :
                        \A j \in present : dist(k) < dist(j) \/ (dist(k) = dist(j) /\ k <= j)
        IN  panPos # -1 =>
                IF present = {} THEN fn.result = <<None, None>>
                ELSE fn.result = <<cands[best],
                                   IF best <= Len(fn.persons) THEN "Person" ELSE "Organisation">>

\* A call has returned a Person that an Organisation of the list is
\* exactly as near to the identifier as.
C5_Witness ==
    /\ fn.name = "find_nearest_entity"
    /\ fn.returned
    /\ FirstOccurrence(fn.context, fn.pan) # -1
    /\ fn.result[2] = "Person"
    /\ \E k \in 1..Len(fn.orgs) :
          /\ FirstOccurrence(fn.context, fn.orgs[k]) # -1
          /\ Abs(FirstOccurrence(fn.context, fn.orgs[k]) - FirstOccurrence(fn.context, fn.pan))
               = Abs(FirstOccurrence(fn.context, fn.result[1])
                     - FirstOccurrence(fn.context, fn.pan))
          /\ FirstOccurrence(fn.context, fn.orgs[k]) # FirstOccurrence(fn.context, fn.result[1])

(***************************************************************************)
(* C10: find_context_around_pan(text, pan, window=r), r >= 0: when the     *)
(* identifier occurs in the text (letter case ignored), first at           *)
(* [start, end), the result is text[max(0, start-r) : min(len(text),       *)
(* end+r)] and contains the identifier; when it does not occur the result  *)
(* is the empty string.                                                    *)
(***************************************************************************)
C10_WindowAroundFirstOccurrence ==
    (fn.name = "find_context_around_pan" /\ fn.returned) =>
        LET start == FirstOccurrence(fn.text, fn.pan)
            end == start + Len(fn.pan)
            lo == Max2(0, start - fn.window)
            hi == Min2(Len(fn.text), end + fn.window)
        IN  IF start # -1
            THEN /\ fn.result = SubSeq(fn.text, lo + 1, hi)
                 /\ FirstOccurrence(fn.result, fn.pan) # -1
            ELSE fn.result = ""

\* A call has returned a window cut off at the start of the text and not
\* at its end.
C10_Witness ==
    /\ fn.name = "find_context_around_pan"
    /\ fn.returned
    /\ FirstOccurrence(fn.text, fn.pan) > 0
    /\ FirstOccurrence(fn.text, fn.pan) - fn.window < 0
    /\ Len(fn.result) < Len(fn.text)
    /\ FirstOccurrence(fn.result, fn.pan) = FirstOccurrence(fn.text, fn.pan)

====
